---- MODULE Spec2Model ----
(***************************************************************************)
(* A state-machine model of the blackjack bot of discord-bot-yeti.         *)
(*                                                                         *)
(* The engine (class Blackjack, src/app/game/blackjack_logic.py) is        *)
(* modelled as operators on a game record and a wallet store; the command  *)
(* layer (class BlackjackBot, src/app/game/bj.py) and the call/fold view   *)
(* (class CallFoldView, src/app/game/call_fold_view.py) are the actions.   *)
(* A coroutine is cut at every await after which it still changes state:   *)
(* the part before the await and the part after it are separate actions,   *)
(* and the suspended coroutine is part of the state.                       *)
(***************************************************************************)
EXTENDS Integers, Sequences, FiniteSets, TLC

(***************************************************************************)
(* Bounds of the model.                                                    *)
(***************************************************************************)
\* Number of cards create_deck puts in a deck (the first NumCards of a draw order).
NumCards == 8
\* The configured starting balance (constructor parameter initial_coins).
initial_coins == 3
\* The local date advances from 0 up to MaxDay.
MaxDay == 1
\* Rounds resolved per table before no further join is taken.
MaxRounds == 1
\* Largest raise amount a user types (amounts 0..MaxAmount are tried).
MaxAmount == 2
\* CallFoldView objects alive at a time.
MaxViews == 2
\* bj_hit coroutines suspended between the draw and the auto-resolve check.
MaxPendingHits == 1
\* Number of cards of the longer deck of the specification SpecLong.
NumCardsLong == 10
\* Number of cards of the decks of the specification SpecScore.
NumCardsScore == 4

\* display names of the members of the guild, and those who play in the
\* default specification
Members == {"ann", "bob", "cat"}
Users == {"ann", "bob"}
\* the text channels of the guild, and the one the default specification uses
AllChannels == {1, 2}
Channels == {1}

NoDate == -1
NoUser == "nobody"

(***************************************************************************)
(* Cards and scoring                                                       *)
(***************************************************************************)
Card(suit, rank) == [suit |-> suit, rank |-> rank]

\* Two orders in which a shuffled deck can give its cards (first drawn first).
\* In the first the first player gets K,Q, the second a natural A,J; in the
\* second the first two players tie on 19.
DrawOrderA ==
  << Card("Spades", "K"), Card("Hearts", "Q"), Card("Spades", "A"),
     Card("Diamonds", "J"), Card("Clubs", "2"), Card("Diamonds", "9"),
     Card("Hearts", "5"), Card("Clubs", "10"), Card("Hearts", "A"),
     Card("Clubs", "7"), Card("Spades", "3"), Card("Hearts", "8") >>

DrawOrderB ==
  << Card("Spades", "K"), Card("Diamonds", "9"), Card("Hearts", "Q"),
     Card("Clubs", "9"), Card("Diamonds", "J"), Card("Clubs", "2"),
     Card("Hearts", "5"), Card("Clubs", "10"), Card("Hearts", "A"),
     Card("Clubs", "7"), Card("Spades", "3"), Card("Hearts", "8") >>

\* the deck (a list popped from its end) that gives NumCards cards in the
\* order draw
DeckOf(draw) == [i \in 1..NumCards |-> draw[NumCards + 1 - i]]

\* An order in which the second player busts on the first hit twice over:
\* K,Q for the first player, 9,8 for the second, then 5, then J,7 and 6.
DrawOrderC ==
  << Card("Spades", "K"), Card("Hearts", "Q"), Card("Diamonds", "9"),
     Card("Clubs", "8"), Card("Hearts", "5"), Card("Diamonds", "J"),
     Card("Clubs", "7"), Card("Spades", "6"), Card("Spades", "3"),
     Card("Hearts", "4"), Card("Hearts", "A"), Card("Clubs", "2") >>

\* the outcomes of random.shuffle the model draws from
Shuffles == {DeckOf(DrawOrderA), DeckOf(DrawOrderB)}
OneShuffle == {DeckOf(DrawOrderA)}
\* a deck of NumCardsLong cards
LongShuffle == {[i \in 1..NumCardsLong |-> DrawOrderC[NumCardsLong + 1 - i]]}

\* the cards the decks of the specification SpecScore are made of, and those
\* decks: every order of NumCardsScore different cards among them
ScoreCards ==
  {Card("Spades", "A"), Card("Hearts", "A"), Card("Spades", "K"),
   Card("Hearts", "Q"), Card("Diamonds", "9"), Card("Clubs", "2")}
ScoreShuffles ==
  {d \in [1..NumCardsScore -> ScoreCards] :
     \A i, j \in 1..NumCardsScore : d[i] = d[j] => i = j}

\* create_deck, with shuffled the outcome of its random.shuffle
create_deck(shuffled) == shuffled

\* int(rank) for the number cards
int(rank) ==
  CASE rank = "2" -> 2 [] rank = "3" -> 3 [] rank = "4" -> 4 [] rank = "5" -> 5
    [] rank = "6" -> 6 [] rank = "7" -> 7 [] rank = "8" -> 8 [] rank = "9" -> 9
    [] rank = "10" -> 10

RECURSIVE RawScore(_)
\* the for loop of update_score: J/Q/K 10, A 11, number cards their value
RawScore(hand) ==
  IF hand = <<>> THEN 0
  ELSE LET rank == Head(hand).rank
       IN (IF rank \in {"J", "Q", "K"} THEN 10
           ELSE IF rank = "A" THEN 11 ELSE int(rank)) + RawScore(Tail(hand))

RECURSIVE AceCount(_)
AceCount(hand) ==
  IF hand = <<>> THEN 0
  ELSE (IF Head(hand).rank = "A" THEN 1 ELSE 0) + AceCount(Tail(hand))

\* update_score with its while loop left out
NoAceAdjust(score, ace_count) == score

RECURSIVE AceAdjust(_, _)
\* while score > 21 and ace_count: score -= 10; ace_count -= 1
AceAdjust(score, ace_count) ==
  IF score > 21 /\ ace_count > 0 THEN AceAdjust(score - 10, ace_count - 1)
  ELSE score

HandScore(hand) == AceAdjust(RawScore(hand), AceCount(hand))

\* the natural test of add_user / command_bj_start on the two-card hand
IsNatural(hand) ==
  LET ranks == {hand[i].rank : i \in 1..Len(hand)}
  IN "A" \in ranks /\ ranks \cap {"J", "Q", "K", "10"} # {}

NaturalBonus == 5

(***************************************************************************)
(* The engine.  g is a game (one Blackjack object):                        *)
(*   deck, order (the keys of self.users in insertion order), users,       *)
(*   pot, current_raise                                                    *)
(* w is the wallet store it shares: coins (user -> balance), last_reset.   *)
(* An engine operation returns [g, w, ret]: the game and the store after   *)
(* it, and what it returns.                                                *)
(***************************************************************************)
NewGame(shuffled) ==
  [deck |-> create_deck(shuffled), order |-> <<>>, users |-> <<>>, pot |-> 0,
   current_raise |-> 0]

EmptyWallet == [coins |-> <<>>, last_reset |-> NoDate]

Out(g, w, ret) == [g |-> g, w |-> w, ret |-> ret]

Seated(g) == {g.order[i] : i \in 1..Len(g.order)}

_wallet_entry(w, user_id) ==
  IF user_id \in DOMAIN w.coins THEN w
  ELSE [w EXCEPT !.coins = (user_id :> initial_coins) @@ @]

\* _get_coins that answers from the coins field of a seated player and
\* reads the wallet store for the others only
GetCachedCoins(g, w, user_id) ==
  IF user_id \in Seated(g) THEN Out(g, w, g.users[user_id].coins)
  ELSE Out(g, _wallet_entry(w, user_id), _wallet_entry(w, user_id).coins[user_id])

_get_coins(g, w, user_id) ==
  LET Entry(w2) ==
        Out(IF user_id \in Seated(g)
            THEN [g EXCEPT !.users[user_id].coins = w2.coins[user_id]] ELSE g,
            w2, w2.coins[user_id])
  IN Entry(_wallet_entry(w, user_id))

_set_coins(g, w, user_id, amount) ==
  LET Entry(w2) ==
        Out(IF user_id \in Seated(g)
            THEN [g EXCEPT !.users[user_id].coins = amount] ELSE g,
            [w2 EXCEPT !.coins[user_id] = amount], amount)
  IN Entry(_wallet_entry(w, user_id))

_adjust_coins(g, w, user_id, delta) ==
  LET Set(r) == _set_coins(r.g, r.w, user_id, r.ret + delta)
  IN Set(_get_coins(g, w, user_id))

\* _get_coins of every user of the sequence, in turn
RECURSIVE GetCoinsAll(_, _, _)
GetCoinsAll(g, w, uids) ==
  IF uids = <<>> THEN Out(g, w, 0)
  ELSE LET Rest(r) == GetCoinsAll(r.g, r.w, Tail(uids))
       IN Rest(_get_coins(g, w, Head(uids)))

\* the test of check_and_reset_coins taken as true on every call
ResetDueOnEveryCall(w, current_date) == TRUE

ResetDue(w, current_date) ==
  w.last_reset = NoDate \/ current_date > w.last_reset

check_and_reset_coins(g, w, current_date) ==
  IF ResetDue(w, current_date)
  THEN Out([g EXCEPT !.users =
              [u \in DOMAIN g.users |->
                 IF u \in DOMAIN w.coins
                 THEN [g.users[u] EXCEPT !.coins = initial_coins]
                 ELSE g.users[u]]],
           [coins |-> [u \in DOMAIN w.coins |-> initial_coins],
            last_reset |-> current_date],
           TRUE)
  ELSE Out(g, w, FALSE)

can_join(g, user_id) ==
  /\ Len(g.deck) >= 2
  /\ user_id \notin Seated(g)

update_score(g, user_id) ==
  LET Store(score) ==
        IF score > 21
        THEN [g EXCEPT !.users[user_id].score = score,
                       !.users[user_id].status = "bust",
                       !.users[user_id].is_folded = TRUE]
        ELSE [g EXCEPT !.users[user_id].score = score]
  IN Store(HandScore(g.users[user_id].hand))

\* deal_card that makes the player stand when the deck is empty
DealOrStand(g, user_id) ==
  IF user_id \notin Seated(g) THEN g
  ELSE IF g.users[user_id].status # "playing" THEN g
  ELSE IF g.deck = <<>> THEN [g EXCEPT !.users[user_id].status = "stand"]
  ELSE update_score([g EXCEPT !.deck = SubSeq(@, 1, Len(@) - 1),
                              !.users[user_id].hand =
                                 Append(@, g.deck[Len(g.deck)])],
                    user_id)

\* deal_card that leaves the card it deals in the deck
DealWithoutPop(g, user_id) ==
  IF user_id \notin Seated(g) THEN g
  ELSE IF g.users[user_id].status # "playing" THEN g
  ELSE IF g.deck = <<>> THEN g
  ELSE update_score([g EXCEPT !.users[user_id].hand =
                                 Append(@, g.deck[Len(g.deck)])],
                    user_id)

\* deal_card: the game after it (the card drawn is the last of the hand)
deal_card(g, user_id) ==
  IF user_id \notin Seated(g) THEN g
  ELSE IF g.users[user_id].status # "playing" THEN g
  ELSE IF g.deck = <<>> THEN g
  ELSE update_score([g EXCEPT !.deck = SubSeq(@, 1, Len(@) - 1),
                              !.users[user_id].hand =
                                 Append(@, g.deck[Len(g.deck)])],
                    user_id)

deal_initial_cards(g, user_id) ==
  deal_card(deal_card(g, user_id), user_id)

NewPlayer(coins) ==
  [hand |-> <<>>, score |-> 0, status |-> "playing", coins |-> coins,
   bet |-> 1, has_raised |-> FALSE, is_folded |-> FALSE, natural_bonus |-> 0]

\* lines 167-174 of add_user and 536-542 of command_bj_start
NoteNatural(g, user_id) ==
  IF IsNatural(g.users[user_id].hand)
  THEN [g EXCEPT !.users[user_id].natural_bonus = NaturalBonus]
  ELSE g

\* lines 150-175 of add_user, r what _get_coins gave
Seat(r, user_id) ==
  LET Deal(s) ==
        Out(NoteNatural(deal_initial_cards([s.g EXCEPT !.pot = @ + 1], user_id),
                        user_id),
            s.w, TRUE)
  IN Deal(_set_coins([r.g EXCEPT !.order = Append(@, user_id),
                                 !.users = (user_id :> NewPlayer(r.ret - 1)) @@ @],
                     r.w, user_id, r.ret - 1))

add_user(g, w, user_id, current_date) ==
  LET Pay(r) == IF r.ret < 1 THEN Out(r.g, r.w, FALSE) ELSE Seat(r, user_id)
      Join(k) == IF ~can_join(k.g, user_id) THEN Out(k.g, k.w, FALSE)
                 ELSE Pay(_get_coins(k.g, k.w, user_id))
  IN Join(check_and_reset_coins(g, w, current_date))

\* user_stand without its test of the status
StandWhateverStatus(g, user_id) ==
  IF user_id \in Seated(g) THEN [g EXCEPT !.users[user_id].status = "stand"]
  ELSE g

user_stand(g, user_id) ==
  IF user_id \in Seated(g) /\ g.users[user_id].status = "playing"
  THEN [g EXCEPT !.users[user_id].status = "stand"]
  ELSE g

\* the other players calculate_max_raise and command_bj_raise count as active
OtherActive(g, raiser_id) ==
  SelectSeq(g.order, LAMBDA uid :
              /\ ~g.users[uid].is_folded
              /\ g.users[uid].status \in {"playing", "stand"}
              /\ uid # raiser_id)

Min(S) == CHOOSE x \in S : \A y \in S : x <= y
Max(S) == CHOOSE x \in S : \A y \in S : x >= y

ToSet(seq) == {seq[i] : i \in 1..Len(seq)}

\* lines 256-259 of calculate_max_raise, a what the _get_coins calls gave
CapByOthers(a, raiser_coins, active_players) ==
  LET Cap(min_other_coins) ==
        Max({0, Min({raiser_coins, Max({0, min_other_coins - 1})})})
  IN Out(a.g, a.w, Cap(Min({a.w.coins[uid] : uid \in ToSet(active_players)})))

calculate_max_raise(g, w, raiser_id) ==
  LET Others(r, active_players) ==
        IF active_players = <<>> THEN Out(r.g, r.w, r.ret)
        ELSE CapByOthers(GetCoinsAll(r.g, r.w, active_players), r.ret,
                         active_players)
  IN IF raiser_id \notin Seated(g) THEN Out(g, w, 0)
     ELSE Others(_get_coins(g, w, raiser_id), OtherActive(g, raiser_id))

\* start_raise with the has_raised test of line 270 left out
EligibleIgnoringHasRaised(player) ==
  ~(player.is_folded \/ player.status # "playing")

\* the first test of start_raise (line 270)
RaiserEligible(player) ==
  ~(player.has_raised \/ player.is_folded \/ player.status # "playing")

\* lines 277-285 of start_raise
Debit(d, raiser_id, amount) ==
  Out([d.g EXCEPT !.users[raiser_id].bet = @ + amount,
                  !.pot = @ + amount,
                  !.current_raise = amount,
                  !.users[raiser_id].has_raised = TRUE],
      d.w, TRUE)

start_raise(g, w, raiser_id, amount) ==
  LET Afford(c) ==
        IF c.ret < amount THEN Out(c.g, c.w, FALSE)
        ELSE Debit(_adjust_coins(c.g, c.w, raiser_id, -amount), raiser_id, amount)
      InRange(m) ==
        IF amount < 1 \/ amount > m.ret THEN Out(m.g, m.w, FALSE)
        ELSE Afford(_get_coins(m.g, m.w, raiser_id))
  IN IF raiser_id \notin Seated(g) THEN Out(g, w, FALSE)
     ELSE IF ~RaiserEligible(g.users[raiser_id]) THEN Out(g, w, FALSE)
     ELSE InRange(calculate_max_raise(g, w, raiser_id))

\* respond_to_raise with a fold that gives up the bet of the player as well
RespondFoldForfeitsBet(g, w, user_id, action) ==
  LET Paid(d, raise) ==
        Out([d.g EXCEPT !.users[user_id].bet = @ + raise, !.pot = @ + raise],
            d.w, TRUE)
      Call(c) ==
        IF c.ret < g.current_raise THEN Out(c.g, c.w, FALSE)
        ELSE Paid(_adjust_coins(c.g, c.w, user_id, -g.current_raise),
                  g.current_raise)
  IN IF user_id \notin Seated(g) THEN Out(g, w, FALSE)
     ELSE IF g.users[user_id].is_folded \/ g.users[user_id].status # "playing"
     THEN Out(g, w, FALSE)
     ELSE IF g.current_raise <= 0 THEN Out(g, w, FALSE)
     ELSE IF action = "call" THEN Call(_get_coins(g, w, user_id))
     ELSE IF action = "fold"
     THEN Out([g EXCEPT !.users[user_id].status = "fold",
                        !.users[user_id].is_folded = TRUE,
                        !.users[user_id].bet = 0], w, TRUE)
     ELSE Out(g, w, FALSE)

\* respond_to_raise without the test of the balance before a call (line 303)
RespondWithoutFundsTest(g, w, user_id, action) ==
  LET Paid(d, raise) ==
        Out([d.g EXCEPT !.users[user_id].bet = @ + raise, !.pot = @ + raise],
            d.w, TRUE)
  IN IF user_id \notin Seated(g) THEN Out(g, w, FALSE)
     ELSE IF g.users[user_id].is_folded \/ g.users[user_id].status # "playing"
     THEN Out(g, w, FALSE)
     ELSE IF g.current_raise <= 0 THEN Out(g, w, FALSE)
     ELSE IF action = "call"
     THEN Paid(_adjust_coins(g, w, user_id, -g.current_raise), g.current_raise)
     ELSE IF action = "fold"
     THEN Out([g EXCEPT !.users[user_id].status = "fold",
                        !.users[user_id].is_folded = TRUE], w, TRUE)
     ELSE Out(g, w, FALSE)

respond_to_raise(g, w, user_id, action) ==
  LET Paid(d, raise) ==
        Out([d.g EXCEPT !.users[user_id].bet = @ + raise, !.pot = @ + raise],
            d.w, TRUE)
      Call(c) ==
        IF c.ret < g.current_raise THEN Out(c.g, c.w, FALSE)
        ELSE Paid(_adjust_coins(c.g, c.w, user_id, -g.current_raise),
                  g.current_raise)
  IN IF user_id \notin Seated(g) THEN Out(g, w, FALSE)
     ELSE IF g.users[user_id].is_folded \/ g.users[user_id].status # "playing"
     THEN Out(g, w, FALSE)
     ELSE IF g.current_raise <= 0 THEN Out(g, w, FALSE)
     ELSE IF action = "call" THEN Call(_get_coins(g, w, user_id))
     ELSE IF action = "fold"
     THEN Out([g EXCEPT !.users[user_id].status = "fold",
                        !.users[user_id].is_folded = TRUE], w, TRUE)
     ELSE Out(g, w, FALSE)

\* clear_raise that leaves current_raise as it is
KeepRaise(g) == g

clear_raise(g) == [g EXCEPT !.current_raise = 0]

\* reset_game that leaves the flags and the recorded bonus of the players
ResetKeepingFlags(g, shuffled) ==
  [g EXCEPT !.deck = create_deck(shuffled), !.pot = 0, !.current_raise = 0,
            !.users = [u \in DOMAIN g.users |->
                         [g.users[u] EXCEPT !.hand = <<>>, !.score = 0,
                                            !.status = "ready", !.bet = 0]]]

\* reset_game, with shuffled the outcome of the shuffle of its new deck
reset_game(g, shuffled) ==
  [g EXCEPT !.deck = create_deck(shuffled), !.pot = 0, !.current_raise = 0,
            !.users = [u \in DOMAIN g.users |->
                         [g.users[u] EXCEPT !.hand = <<>>, !.score = 0,
                                            !.status = "ready", !.bet = 0,
                                            !.has_raised = FALSE,
                                            !.is_folded = FALSE,
                                            !.natural_bonus = 0]]]

(***************************************************************************)
(* resolve_round                                                           *)
(***************************************************************************)
\* round_players: the seated players with a status other than ready, a bet
\* or a hand, in insertion order
round_players(g) ==
  SelectSeq(g.order, LAMBDA uid :
              \/ g.users[uid].status # "ready"
              \/ g.users[uid].bet > 0
              \/ g.users[uid].hand # <<>>)

\* active_players of resolve_round without the test of status and is_folded
SurvivorsAnyStatus(g) == round_players(g)

\* active_players of resolve_round
Survivors(g) ==
  SelectSeq(round_players(g), LAMBDA uid :
              /\ g.users[uid].status \in {"playing", "stand"}
              /\ ~g.users[uid].is_folded)

\* for uid, state in round_players.items(): refund the bet, bet = 0
RECURSIVE RefundBets(_, _, _)
RefundBets(g, w, uids) ==
  IF uids = <<>> THEN Out(g, w, 0)
  ELSE LET Rest(r) ==
             RefundBets([r.g EXCEPT !.users[Head(uids)].bet = 0], r.w, Tail(uids))
       IN Rest(_adjust_coins(g, w, Head(uids), g.users[Head(uids)].bet))

\* the share loop without the extra coin of the remainder (line 388-389)
RECURSIVE PaySharesNoRemainder(_, _, _, _, _, _)
PaySharesNoRemainder(g, w, winners, i, share, remainder) ==
  IF i >= Len(winners) THEN Out(g, w, 0)
  ELSE LET Rest(q) ==
             PaySharesNoRemainder(q.g, q.w, winners, i + 1, share, remainder)
       IN Rest(_adjust_coins(g, w, winners[i + 1], share))

\* for i, uid in enumerate(winners): share, and one more coin if i < remainder
RECURSIVE PayShares(_, _, _, _, _, _)
PayShares(g, w, winners, i, share, remainder) ==
  IF i >= Len(winners) THEN Out(g, w, 0)
  ELSE LET Rest(q) == PayShares(q.g, q.w, winners, i + 1, share, remainder)
           Extra(r) == IF i < remainder
                       THEN _adjust_coins(r.g, r.w, winners[i + 1], 1) ELSE r
       IN Rest(Extra(_adjust_coins(g, w, winners[i + 1], share)))

\* the test of the natural bonus loop without its status and fold tests
BonusDueToAnyHolder(state) == state.natural_bonus # 0

\* the test of the natural bonus loop (line 394)
BonusDue(state) ==
  state.natural_bonus # 0 /\ state.status # "bust" /\ ~state.is_folded

\* the natural bonus loop; ret is the number of coins it credits
RECURSIVE PayBonuses(_, _, _)
PayBonuses(g, w, uids) ==
  IF uids = <<>> THEN Out(g, w, 0)
  ELSE LET Add(t, bonus) == Out(t.g, t.w, t.ret + bonus)
           Rest(r) == PayBonuses(r.g, r.w, Tail(uids))
       IN IF BonusDue(g.users[Head(uids)])
          THEN Add(Rest(_adjust_coins(g, w, Head(uids),
                                      g.users[Head(uids)].natural_bonus)),
                   g.users[Head(uids)].natural_bonus)
          ELSE PayBonuses(g, w, Tail(uids))

\* the per-player entries of the summary (the rendered hand is left out);
\* before is the dict resolve_round calls initial_coins
Results(g, w, uids, before) ==
  [i \in 1..Len(uids) |->
     [user_id |-> uids[i],
      score |-> g.users[uids[i]].score,
      final_coins |-> w.coins[uids[i]],
      change |-> w.coins[uids[i]] - before[uids[i]],
      natural_bonus |-> g.users[uids[i]].natural_bonus]]

\* what resolve_round returns and leaves: message (which of its messages),
\* results, and paid, the natural-bonus coins it credited to balances
Resolved(s, message, players, before, paid, shuffled) ==
  Out(reset_game(s.g, shuffled), s.w,
      [message |-> message, results |-> Results(s.g, s.w, players, before),
       paid |-> paid])

\* lines 353-377: nobody is left
NoSurvivor(b, players, before, shuffled) ==
  LET Zero(r) == GetCoinsAll([r.g EXCEPT !.pot = 0], r.w, players)
  IN Resolved(Zero(RefundBets(b.g, b.w, players)), "no winner", players,
              before, 0, shuffled)

\* lines 381-415: the winners share the pot
Winners(b, players, before, active_players, shuffled) ==
  LET Report(n, winners) ==
        Resolved(GetCoinsAll(n.g, n.w, players),
                 IF Len(winners) = 1 THEN "winner" ELSE "draw",
                 players, before, n.ret, shuffled)
      Bonus(p, winners) == Report(PayBonuses(p.g, p.w, players), winners)
      Split(winners) ==
        Bonus(PayShares(b.g, b.w, winners, 0, b.g.pot \div Len(winners),
                        b.g.pot % Len(winners)),
              winners)
      Best(highest_score) ==
        Split(SelectSeq(active_players,
                        LAMBDA uid : b.g.users[uid].score = highest_score))
  IN Best(Max({b.g.users[uid].score : uid \in ToSet(active_players)}))

resolve_round(g, w, shuffled) ==
  LET Decide(b, players, active_players) ==
        IF active_players = <<>>
        THEN NoSurvivor(b, players, [uid \in ToSet(players) |-> b.w.coins[uid]],
                        shuffled)
        ELSE Winners(b, players, [uid \in ToSet(players) |-> b.w.coins[uid]],
                     active_players, shuffled)
      Round(players) ==
        IF players = <<>>
        THEN Out(reset_game(g, shuffled), w,
                 [message |-> "no players", results |-> <<>>, paid |-> 0])
        ELSE Decide(GetCoinsAll(g, w, players), players, Survivors(g))
  IN Round(round_players(g))

(***************************************************************************)
(* The state of the bot                                                    *)
(***************************************************************************)
VARIABLES
  games,         \* BlackjackBot.games: channel -> game, made on first use
  wallet_store,  \* the wallet store of the guild, shared by its games
  today,         \* _current_local_date()
  views,         \* the CallFoldView objects still alive, oldest first
  pending_hits,  \* channel -> bj_hit coroutines suspended before
                 \* _check_auto_allstand
  round_start,   \* channel -> (user -> balance right before the user's first
                 \* debit of the round in progress); kept for the claims
  rounds,        \* channel -> rounds resolved so far (bounds the model)
  last           \* what the last step did and answered

vars == <<games, wallet_store, today, views, pending_hits,
          round_start, rounds, last>>

NoSummary == [message |-> "", results |-> <<>>, paid |-> 0]

\* the description of a step, with raised the users of each channel whose
\* raise was accepted in the round in progress and answered the users of
\* each channel whose call or fold was accepted since current_raise was last
\* set there (both kept for the claims)
StepAfter(op, raised) ==
  [op |-> op, ok |-> TRUE, why |-> "", ch |-> 0, user |-> NoUser, amount |-> 0,
   resolved |-> FALSE, raise_open |-> FALSE, summary |-> NoSummary,
   delta |-> 0, clears |-> 0, absent |-> {}, raised |-> raised,
   answered |-> [c \in AllChannels |-> {}]]

\* the description of a step; an operation that is declined keeps only its
\* name, its channel and the reason
Step(op) == [StepAfter(op, last.raised) EXCEPT !.answered = last.answered]

Accepted(op, ch, user_id) == [Step(op) EXCEPT !.ch = ch, !.user = user_id]
Declined(op, ch, why) == [Step(op) EXCEPT !.ok = FALSE, !.ch = ch, !.why = why]
\* a declined bj_start, which notes the user who ran it
DeclinedStart(ch, user_id, why) ==
  [Declined("start", ch, why) EXCEPT !.user = user_id]

\* get_game, with shuffled the outcome of the shuffle if it makes the game
get_game(channel_id, shuffled) ==
  IF channel_id \in DOMAIN games THEN games[channel_id] ELSE NewGame(shuffled)

SetGame(channel_id, g) == games' = (channel_id :> g) @@ games

RECURSIVE Sum(_, _)
Sum(f, S) ==
  IF S = {} THEN 0
  ELSE f[CHOOSE y \in S : TRUE] + Sum(f, S \ {CHOOSE y \in S : TRUE})

\* resolve_round on channel channel_id as one step of a command, with the
\* bookkeeping of the round: delta is the sum over the in-round players of
\* (balance after the resolution - balance before the first debit)
Resolve(channel_id, g, w, step, shuffled) ==
  LET Done(r, base) ==
        /\ SetGame(channel_id, r.g)
        /\ wallet_store' = r.w
        /\ round_start' = [round_start EXCEPT ![channel_id] = <<>>]
        /\ rounds' = [rounds EXCEPT ![channel_id] = @ + 1]
        /\ last' = [step EXCEPT !.ch = channel_id,
                                !.resolved = TRUE,
                                !.raised[channel_id] = {},
                                !.answered[channel_id] = {},
                                !.raise_open = g.current_raise > 0,
                                !.summary = r.ret,
                                !.delta = Sum([u \in DOMAIN base |->
                                                 r.w.coins[u] - base[u]],
                                              DOMAIN base)]
  IN Done(resolve_round(g, w, shuffled), round_start[channel_id])

Commit(channel_id, g, w, step) ==
  /\ SetGame(channel_id, g)
  /\ wallet_store' = w
  /\ last' = step

\* find_active_channel_for_user that finds no channel
FindNoActiveChannel(user_id, exclude_channel) == 0

\* find_active_channel_for_user (one guild); 0 stands for None
find_active_channel_for_user(user_id, exclude_channel) ==
  LET First(active) == IF active = {} THEN 0 ELSE Min(active)
  IN First({cid \in DOMAIN games \ {exclude_channel} :
              /\ user_id \in Seated(games[cid])
              /\ games[cid].users[user_id].status # "ready"})

\* the test of command_bj_start taking every seated user as still in the round
SeatedIsInRound(player) == TRUE

\* the test of command_bj_start for a seated user: the round is still on
StillInRound(player) ==
  player.status \in {"playing", "stand"} /\ player.hand # <<>>

\* lines 523-545 of command_bj_start: a seated user antes again
Rejoin(g, w, user_id) ==
  LET Shown(g3, w3) == _get_coins(g3, w3, user_id)
      Ante(d) ==
        Shown(NoteNatural(
                deal_initial_cards(
                  [d.g EXCEPT !.users[user_id].bet = 1,
                              !.users[user_id].status = "playing",
                              !.users[user_id].has_raised = FALSE,
                              !.users[user_id].is_folded = FALSE,
                              !.users[user_id].hand = <<>>,
                              !.users[user_id].score = 0,
                              !.users[user_id].natural_bonus = 0,
                              !.pot = @ + 1],
                  user_id),
                user_id),
              d.w)
  IN Ante(_adjust_coins(g, w, user_id, -1))

\* the balance before the first debit of the round is noted when a user who
\* is not in the round antes
NoteRoundStart(channel_id, user_id, coins) ==
  round_start' =
    IF user_id \in DOMAIN round_start[channel_id] THEN round_start
    ELSE [round_start EXCEPT ![channel_id] = (user_id :> coins) @@ @]

\* lines 500-557 of command_bj_start: the user is seated already
StartSeated(channel_id, user_id, g, w) ==
  LET Again(r, coins) ==
        /\ Commit(channel_id, r.g, r.w,
                  [Accepted("start", channel_id, user_id) EXCEPT !.why = "rejoin"])
        /\ NoteRoundStart(channel_id, user_id, coins)
      Coins(c) ==
        IF c.ret < 1
        THEN /\ Commit(channel_id, c.g, c.w,
                       DeclinedStart(channel_id, user_id, "no coins"))
             /\ UNCHANGED round_start
        ELSE Again(Rejoin(c.g, c.w, user_id), c.ret)
  IN IF StillInRound(g.users[user_id])
     THEN /\ Commit(channel_id, g, w,
                    DeclinedStart(channel_id, user_id, "already in the game"))
          /\ UNCHANGED round_start
     ELSE IF Len(g.deck) < 2
     THEN /\ Commit(channel_id, g, w,
                    DeclinedStart(channel_id, user_id, "too few cards"))
          /\ UNCHANGED round_start
     ELSE Coins(_get_coins(g, w, user_id))

\* lines 559-581 of command_bj_start: a new player
StartNew(channel_id, user_id, g, w) ==
  LET Shown(c) ==
        /\ Commit(channel_id, c.g, c.w, Accepted("start", channel_id, user_id))
        /\ NoteRoundStart(channel_id, user_id, c.ret + 1)
      Added(a) ==
        IF ~a.ret
        THEN /\ Commit(channel_id, a.g, a.w,
                       DeclinedStart(channel_id, user_id, "cannot join"))
             /\ UNCHANGED round_start
        ELSE Shown(_get_coins(a.g, a.w, user_id))
  IN Added(add_user(g, w, user_id, today))

command_bj_start(channel_id, user_id, shuffled) ==
  LET Checked(k) ==
        /\ UNCHANGED <<today, views, pending_hits, rounds>>
        /\ IF user_id \in Seated(k.g)
           THEN StartSeated(channel_id, user_id, k.g, k.w)
           ELSE StartNew(channel_id, user_id, k.g, k.w)
  IN IF find_active_channel_for_user(user_id, channel_id) # 0
     THEN /\ last' = DeclinedStart(channel_id, user_id,
                                   "in a round on another channel")
          /\ UNCHANGED <<games, wallet_store, today, views,
                         pending_hits, round_start, rounds>>
     ELSE Checked(check_and_reset_coins(get_game(channel_id, shuffled),
                                        wallet_store, today))

\* lines 606-623 of command_bj_hit: the draw, up to the first await
Draw(channel_id, user_id, g, w) ==
  LET Shown(c) ==
        /\ Commit(channel_id, c.g, c.w,
                  [Accepted("hit", channel_id, user_id)
                     EXCEPT !.raise_open = g.current_raise > 0])
        /\ pending_hits' = [pending_hits EXCEPT ![channel_id] = @ + 1]
      Drawn(g1) ==
        Shown(IF g1.users[user_id].status = "bust" THEN Out(g1, w, 0)
              ELSE _get_coins(g1, w, user_id))
  IN Drawn(deal_card(g, user_id))

\* command_bj_hit up to its first await
command_bj_hit(channel_id, user_id, shuffled) ==
  LET Checked(k) ==
        /\ UNCHANGED <<today, views, round_start, rounds>>
        /\ IF user_id \notin Seated(k.g)
           THEN /\ Commit(channel_id, k.g, k.w,
                          Declined("hit", channel_id, "not in the game"))
                /\ UNCHANGED pending_hits
           ELSE IF \/ k.g.users[user_id].is_folded
                   \/ k.g.users[user_id].status # "playing"
           THEN /\ Commit(channel_id, k.g, k.w,
                          Declined("hit", channel_id, "bust or folded"))
                /\ UNCHANGED pending_hits
           ELSE IF k.g.deck = <<>>
           THEN /\ Commit(channel_id, k.g, k.w,
                          Declined("hit", channel_id, "deck empty"))
                /\ UNCHANGED pending_hits
           ELSE Draw(channel_id, user_id, k.g, k.w)
  IN Checked(check_and_reset_coins(get_game(channel_id, shuffled),
                                   wallet_store, today))

\* active_players of _check_auto_allstand
AutoActive(g) ==
  {uid \in Seated(g) : /\ g.users[uid].status \in {"playing", "stand"}
                       /\ ~g.users[uid].is_folded}

\* the rest of command_bj_hit, after its messages are sent
_check_auto_allstand(channel_id, shuffled) ==
  LET Check(g) ==
        IF AutoActive(g) = {} /\ Seated(g) # {}
        THEN Resolve(channel_id, g, wallet_store, Step("hit_check"), shuffled)
        ELSE /\ last' = [Step("hit_check") EXCEPT !.ch = channel_id]
             /\ UNCHANGED <<games, wallet_store, round_start, rounds>>
  IN /\ pending_hits[channel_id] > 0
     /\ pending_hits' = [pending_hits EXCEPT ![channel_id] = @ - 1]
     /\ UNCHANGED <<today, views>>
     /\ Check(get_game(channel_id, shuffled))

\* the test of command_bj_allstand at line 739
AllstandBlocked(g) == g.current_raise > 0

command_bj_allstand(channel_id, shuffled) ==
  LET Checked(k) ==
        /\ UNCHANGED <<today, views, pending_hits>>
        /\ IF AllstandBlocked(k.g)
           THEN /\ Commit(channel_id, k.g, k.w,
                          Declined("allstand", channel_id, "raise open"))
                /\ UNCHANGED <<round_start, rounds>>
           ELSE IF Seated(k.g) = {}
           THEN /\ Commit(channel_id, k.g, k.w,
                          Declined("allstand", channel_id, "no game"))
                /\ UNCHANGED <<round_start, rounds>>
           ELSE IF {uid \in Seated(k.g) : StillInRound(k.g.users[uid])} = {}
           THEN /\ Commit(channel_id, k.g, k.w,
                          Declined("allstand", channel_id, "no round"))
                /\ UNCHANGED <<round_start, rounds>>
           ELSE Resolve(channel_id, k.g, k.w, Step("allstand"), shuffled)
  IN Checked(check_and_reset_coins(get_game(channel_id, shuffled),
                                   wallet_store, today))

command_bj_show(channel_id, user_id, shuffled) ==
  LET Shown(c) ==
        Commit(channel_id, c.g, c.w, Accepted("show", channel_id, user_id))
      Checked(k) ==
        /\ UNCHANGED <<today, views, pending_hits, round_start, rounds>>
        /\ IF user_id \notin Seated(k.g)
           THEN Commit(channel_id, k.g, k.w,
                       Declined("show", channel_id, "not in the game"))
           ELSE Shown(GetCoinsAll(k.g, k.w, k.g.order))
  IN Checked(check_and_reset_coins(get_game(channel_id, shuffled),
                                   wallet_store, today))

\* user_stand of the engine (no command of the bot layer calls it)
Stand(channel_id, user_id) ==
  LET Stood(g) ==
        /\ SetGame(channel_id, g)
        /\ last' = IF g = games[channel_id]
                   THEN Declined("stand", channel_id, "not playing")
                   ELSE Accepted("stand", channel_id, user_id)
  IN /\ channel_id \in DOMAIN games
     /\ Stood(user_stand(games[channel_id], user_id))
     /\ UNCHANGED <<wallet_store, today, views, pending_hits,
                    round_start, rounds>>

\* the local date changes
Midnight ==
  /\ today < MaxDay
  /\ today' = today + 1
  /\ last' = Step("midnight")
  /\ UNCHANGED <<games, wallet_store, views, pending_hits,
                 round_start, rounds>>

(***************************************************************************)
(* Raises and the call/fold view                                           *)
(***************************************************************************)
\* command_bj_raise with the test of line 649 left out
RaiseNeverInProgress(g) == FALSE

\* the test of command_bj_raise at line 649
RaiseInProgress(g) == g.current_raise > 0

\* CallFoldView(game, raiser_id, responders).  finished: stop() was called or
\* the timeout has run; pending: the responders whose _handle_response is
\* suspended in its last send_message; clears: the clear_raise calls made
\* through this view so far.
CallFoldView(channel_id, raiser_id, responders) ==
  [ch |-> channel_id, raiser_id |-> raiser_id,
   responders |-> ToSet(responders),
   responses |-> <<>>, finished |-> FALSE, pending |-> {}, clears |-> 0]

\* a view is dropped once it is finished and no handler of it is suspended
Alive(v) == ~v.finished \/ v.pending # {}

\* lines 666-712 of command_bj_raise: the raise is made and the view sent
MakeRaise(channel_id, user_id, amount, g, w) ==
  LET Shown(c, other_players) ==
        /\ Commit(channel_id, c.g, c.w,
                  [Accepted("raise", channel_id, user_id)
                     EXCEPT !.amount = amount,
                            !.raised[channel_id] = @ \cup {user_id},
                            !.answered[channel_id] = {}])
        /\ views' = Append(views,
                           CallFoldView(channel_id, user_id, other_players))
      Started(s) ==
        IF ~s.ret
        THEN /\ Commit(channel_id, s.g, s.w,
                       Declined("raise", channel_id, "failed"))
             /\ UNCHANGED views
        ELSE Shown(GetCoinsAll(s.g, s.w, s.g.order), OtherActive(s.g, user_id))
      Capped(m) ==
        IF m.ret <= 0
        THEN /\ Commit(channel_id, m.g, m.w,
                       Declined("raise", channel_id, "no room"))
             /\ UNCHANGED views
        ELSE IF amount < 1 \/ amount > m.ret
        THEN /\ Commit(channel_id, m.g, m.w,
                       Declined("raise", channel_id, "amount"))
             /\ UNCHANGED views
        ELSE Started(start_raise(m.g, m.w, user_id, amount))
  IN Capped(calculate_max_raise(g, w, user_id))

command_bj_raise(channel_id, user_id, amount, shuffled) ==
  LET Checked(k) ==
        /\ UNCHANGED <<today, pending_hits, round_start, rounds>>
        /\ IF user_id \notin Seated(k.g)
           THEN /\ Commit(channel_id, k.g, k.w,
                          Declined("raise", channel_id, "not in the game"))
                /\ UNCHANGED views
           ELSE IF RaiseInProgress(k.g)
           THEN /\ Commit(channel_id, k.g, k.w,
                          Declined("raise", channel_id, "raise open"))
                /\ UNCHANGED views
           ELSE IF k.g.users[user_id].has_raised
           THEN /\ Commit(channel_id, k.g, k.w,
                          Declined("raise", channel_id, "already raised"))
                /\ UNCHANGED views
           ELSE IF \/ k.g.users[user_id].is_folded
                   \/ k.g.users[user_id].status # "playing"
           THEN /\ Commit(channel_id, k.g, k.w,
                          Declined("raise", channel_id, "bust or folded"))
                /\ UNCHANGED views
           ELSE MakeRaise(channel_id, user_id, amount, k.g, k.w)
  IN Checked(check_and_reset_coins(get_game(channel_id, shuffled),
                                   wallet_store, today))

\* _handle_response of view i up to its last send_message
_handle_response(i, user_id, action) ==
  LET Recorded(c, v) ==
        /\ Commit(v.ch, c.g, c.w,
                  [Accepted(action, v.ch, user_id)
                     EXCEPT !.amount = games[v.ch].current_raise,
                            !.answered[v.ch] = @ \cup {user_id}])
        /\ views' = [views EXCEPT ![i].responses = (user_id :> action) @@ @,
                                  ![i].pending = @ \cup {user_id}]
      Answered(r, v) ==
        IF ~r.ret
        THEN /\ Commit(v.ch, r.g, r.w, Declined(action, v.ch, "not processed"))
             /\ UNCHANGED views
        ELSE Recorded(_get_coins(r.g, r.w, user_id), v)
      Handle(v) ==
        /\ ~v.finished
        /\ UNCHANGED <<today, pending_hits, round_start, rounds>>
        /\ IF user_id \notin v.responders
           THEN /\ last' = Declined(action, v.ch, "not invited")
                /\ UNCHANGED <<games, wallet_store, views>>
           ELSE IF user_id \in DOMAIN v.responses
           THEN /\ last' = Declined(action, v.ch, "already responded")
                /\ UNCHANGED <<games, wallet_store, views>>
           ELSE Answered(respond_to_raise(games[v.ch], wallet_store, user_id,
                                          action), v)
  IN Handle(views[i])

\* the end of _handle_response of view i, once its message is sent
ResponseSent(i, user_id) ==
  LET Done(v, v1, all) ==
        /\ games' = IF all THEN [games EXCEPT ![v.ch] = clear_raise(@)]
                    ELSE games
        /\ views' = SelectSeq([views EXCEPT ![i] = v1], Alive)
        /\ last' = [Step("sent") EXCEPT !.ok = all, !.ch = v.ch,
                                        !.user = user_id,
                                        !.amount = games[v.ch].current_raise,
                                        !.clears = v1.clears,
                                        !.answered[v.ch] =
                                          IF all THEN {} ELSE @]
      End(v, all) ==
        Done(v, [v EXCEPT !.pending = @ \ {user_id},
                          !.clears = IF all THEN @ + 1 ELSE @,
                          !.finished = IF all THEN TRUE ELSE @], all)
      Resume(v) ==
        /\ user_id \in v.pending
        /\ End(v, v.responders = DOMAIN v.responses)
  IN /\ Resume(views[i])
     /\ UNCHANGED <<wallet_store, today, pending_hits, round_start, rounds>>

\* for user_id in self.responders: if user_id not in self.responses: fold
RECURSIVE FoldAbsent(_, _, _)
FoldAbsent(g, w, absent) ==
  IF absent = {} THEN Out(g, w, TRUE)
  ELSE LET Rest(r, user_id) == FoldAbsent(r.g, r.w, absent \ {user_id})
           Fold(user_id) ==
             Rest(respond_to_raise(g, w, user_id, "fold"), user_id)
       IN Fold(CHOOSE u \in absent : TRUE)

\* on_timeout without its call of clear_raise (line 78)
on_timeout_keeps_raise(i) ==
  LET Done(r, v, v1, absent) ==
        /\ SetGame(v.ch, r.g)
        /\ wallet_store' = r.w
        /\ views' = SelectSeq([views EXCEPT ![i] = v1], Alive)
        /\ last' = [Step("timeout") EXCEPT !.ch = v.ch, !.user = v.raiser_id,
                                           !.amount = games[v.ch].current_raise,
                                           !.absent = absent]
      Expire(v, absent) ==
        /\ ~v.finished
        /\ Done(FoldAbsent(games[v.ch], wallet_store, absent), v,
                [v EXCEPT !.finished = TRUE], absent)
      View(v) == Expire(v, v.responders \ DOMAIN v.responses)
  IN /\ View(views[i])
     /\ UNCHANGED <<today, pending_hits, round_start, rounds>>

\* the timeout of view i: the view is finished and on_timeout runs
on_timeout(i) ==
  LET Done(r, v, v1, absent) ==
        /\ SetGame(v.ch, clear_raise(r.g))
        /\ wallet_store' = r.w
        /\ views' = SelectSeq([views EXCEPT ![i] = v1], Alive)
        /\ last' = [Step("timeout") EXCEPT !.ch = v.ch, !.user = v.raiser_id,
                                           !.amount = games[v.ch].current_raise,
                                           !.clears = v1.clears,
                                           !.absent = absent,
                                           !.answered[v.ch] = {}]
      Expire(v, absent) ==
        /\ ~v.finished
        /\ Done(FoldAbsent(games[v.ch], wallet_store, absent), v,
                [v EXCEPT !.finished = TRUE, !.clears = @ + 1], absent)
      View(v) == Expire(v, v.responders \ DOMAIN v.responses)
  IN /\ View(views[i])
     /\ UNCHANGED <<today, pending_hits, round_start, rounds>>

(***************************************************************************)
(* The specification                                                       *)
(***************************************************************************)
Init ==
  /\ games = <<>>
  /\ wallet_store = EmptyWallet
  /\ today = 0
  /\ views = <<>>
  /\ pending_hits = [c \in AllChannels |-> 0]
  /\ round_start = [c \in AllChannels |-> <<>>]
  /\ rounds = [c \in AllChannels |-> 0]
  /\ last = StepAfter("init", [c \in AllChannels |-> {}])

\* the shuffles a command on channel_id can need to make its game
NewDecks(S, channel_id) ==
  IF channel_id \in DOMAIN games THEN {CHOOSE d \in S : TRUE} ELSE S

\* The steps, for the channels C, the users U and the shuffles S
Start(C, U, S) ==
  \E channel_id \in C, user_id \in U :
    /\ rounds[channel_id] < MaxRounds
    /\ \E shuffled \in NewDecks(S, channel_id) :
         command_bj_start(channel_id, user_id, shuffled)

\* bj_start on a table that has resolved fewer than n rounds
StartWithin(n, C, U, S) ==
  \E channel_id \in C, user_id \in U :
    /\ rounds[channel_id] < n
    /\ \E shuffled \in NewDecks(S, channel_id) :
         command_bj_start(channel_id, user_id, shuffled)

Hit(C, U, S) ==
  \E channel_id \in C, user_id \in U :
    /\ pending_hits[channel_id] < MaxPendingHits
    /\ \E shuffled \in NewDecks(S, channel_id) :
         command_bj_hit(channel_id, user_id, shuffled)

HitCheck(C, S) ==
  \E channel_id \in C, shuffled \in S :
    _check_auto_allstand(channel_id, shuffled)

Raise(C, U, S) ==
  \E channel_id \in C, user_id \in U, amount \in 0..MaxAmount :
    /\ Len(views) < MaxViews
    /\ \E shuffled \in NewDecks(S, channel_id) :
         command_bj_raise(channel_id, user_id, amount, shuffled)

AllStand(C, S) ==
  \E channel_id \in C, shuffled \in S :
    command_bj_allstand(channel_id, shuffled)

Show(C, U, S) ==
  \E channel_id \in C, user_id \in U :
    \E shuffled \in NewDecks(S, channel_id) :
      command_bj_show(channel_id, user_id, shuffled)

UserStand(C, U) ==
  \E channel_id \in C, user_id \in U : Stand(channel_id, user_id)

Respond(U) ==
  \E i \in 1..Len(views), user_id \in U, action \in {"call", "fold"} :
    _handle_response(i, user_id, action)

Sent(U) == \E i \in 1..Len(views), user_id \in U : ResponseSent(i, user_id)

Timeout == \E i \in 1..Len(views) : on_timeout(i)

\* The default specification: the commands of the bot and the buttons and
\* the timeout of its views, on one channel with two players, the local date
\* not changing
Next ==
  \/ Start(Channels, Users, Shuffles)
  \/ Hit(Channels, Users, Shuffles)
  \/ HitCheck(Channels, Shuffles)
  \/ Raise(Channels, Users, Shuffles)
  \/ AllStand(Channels, Shuffles)
  \/ Show(Channels, Users, Shuffles)
  \/ Respond(Users)
  \/ Sent(Users)
  \/ Timeout

Spec == Init /\ [][Next]_vars

\* The same with user_stand of the engine called for a player
NextStand == Next \/ UserStand(Channels, Users)

SpecStand == Init /\ [][NextStand]_vars

\* The raise protocol with the local date changing, on one shuffle
NextDay ==
  \/ Start(Channels, Users, OneShuffle)
  \/ Raise(Channels, Users, OneShuffle)
  \/ AllStand(Channels, OneShuffle)
  \/ Respond(Users)
  \/ Sent(Users)
  \/ Timeout
  \/ Midnight

SpecDay == Init /\ [][NextDay]_vars

\* The raise protocol with the timeout of a view firing eventually
NextLive ==
  \/ Start(Channels, Users, OneShuffle)
  \/ Hit(Channels, Users, OneShuffle)
  \/ HitCheck(Channels, OneShuffle)
  \/ Raise(Channels, Users, OneShuffle)
  \/ AllStand(Channels, OneShuffle)
  \/ Respond(Users)
  \/ Sent(Users)
  \/ Timeout

SpecLive == Init /\ [][NextLive]_vars /\ WF_vars(Timeout)

\* The commands of a round on a deck long enough for a player to bust, ante
\* again and bust again
NextLong ==
  \/ Start(Channels, Users, LongShuffle)
  \/ Hit(Channels, Users, LongShuffle)
  \/ HitCheck(Channels, LongShuffle)
  \/ Raise(Channels, Users, LongShuffle)
  \/ Respond(Users)
  \/ Sent(Users)
  \/ Timeout

SpecLong == Init /\ [][NextLong]_vars

\* A round of three players with raises, resolved by bj_allstand
NextThree ==
  \/ Start(Channels, Members, Shuffles)
  \/ Raise(Channels, Members, Shuffles)
  \/ AllStand(Channels, Shuffles)
  \/ Respond(Members)
  \/ Sent(Members)
  \/ Timeout

SpecThree == Init /\ [][NextThree]_vars

\* Two rounds in a row on one table: the players of the first round stay
\* seated (status ready) and each joins the second round or stays out of it
NextRounds ==
  \/ StartWithin(MaxRounds + 1, Channels, Users, OneShuffle)
  \/ Hit(Channels, Users, OneShuffle)
  \/ HitCheck(Channels, OneShuffle)
  \/ AllStand(Channels, OneShuffle)

SpecRounds == Init /\ [][NextRounds]_vars

\* Two tables of one guild, which share its wallet store, with the local
\* date changing
NextShared ==
  \/ Start(AllChannels, Users, OneShuffle)
  \/ AllStand(AllChannels, OneShuffle)
  \/ Show(AllChannels, Users, OneShuffle)
  \/ Midnight

SpecShared == Init /\ [][NextShared]_vars

\* The commands a table declines, with the local date changing
NextDeclines ==
  \/ Start(Channels, Users, OneShuffle)
  \/ Hit(Channels, Users, OneShuffle)
  \/ HitCheck(Channels, OneShuffle)
  \/ Raise(Channels, Users, OneShuffle)
  \/ Respond(Users)
  \/ Midnight

SpecDeclines == Init /\ [][NextDeclines]_vars

\* Joins and hits of a round on every deck of ScoreShuffles (the deck of the
\* round after it is the one of OneShuffle)
NextScore ==
  \/ Start(Channels, Users, ScoreShuffles)
  \/ Hit(Channels, Users, ScoreShuffles)
  \/ HitCheck(Channels, OneShuffle)

SpecScore == Init /\ [][NextScore]_vars

\* Three rounds of one table with raises and calls, without hits
NextRejoin ==
  \/ StartWithin(MaxRounds + 2, Channels, Users, OneShuffle)
  \/ Raise(Channels, Users, OneShuffle)
  \/ Respond(Users)
  \/ Sent(Users)
  \/ AllStand(Channels, OneShuffle)

SpecRejoin == Init /\ [][NextRejoin]_vars

\* Two rounds of one table with hits, the raises of one player and the
\* answers of the other
NextTwice ==
  \/ StartWithin(MaxRounds + 1, Channels, Users, LongShuffle)
  \/ Hit(Channels, Users, LongShuffle)
  \/ HitCheck(Channels, LongShuffle)
  \/ Raise(Channels, {"ann"}, LongShuffle)
  \/ Respond({"bob"})

SpecTwice == Init /\ [][NextTwice]_vars

\* Two rounds on each of two tables of one guild, which share its wallet
\* store
NextTables ==
  \/ StartWithin(MaxRounds + 1, AllChannels, Users, OneShuffle)
  \/ AllStand(AllChannels, OneShuffle)

SpecTables == Init /\ [][NextTables]_vars

\* One player at one table with hits, raises, the timeout of the views and
\* the local date changing
NextAlone ==
  \/ Start(Channels, {"ann"}, OneShuffle)
  \/ Hit(Channels, {"ann"}, OneShuffle)
  \/ HitCheck(Channels, OneShuffle)
  \/ Raise(Channels, {"ann"}, OneShuffle)
  \/ Timeout
  \/ Midnight

SpecAlone == Init /\ [][NextAlone]_vars

(***************************************************************************)
(* The claims                                                              *)
(***************************************************************************)
Bets(g) == Sum([u \in Seated(g) |-> g.users[u].bet], Seated(g))

\* C1: at every resolution, the sum over the in-round players of (balance
\* right after the resolution - balance right before the player's first debit
\* of the round) is the total of the natural bonuses the resolution paid, and
\* the pot is 0 afterwards.
C1_CoinsConserved ==
  last.resolved =>
    /\ last.delta = last.summary.paid
    /\ games[last.ch].pot = 0

\* C2: in every reachable state the pot of a table is the sum of the bets of
\* its players.
C2_PotIsSumOfBets ==
  \A ch \in DOMAIN games : games[ch].pot = Bets(games[ch])

\* C3: a hit made while a raise is open is declined: no card is drawn and no
\* player's hand, score or status changes.
C3_HitDeclinedWhileRaiseOpen ==
  [][\A ch \in DOMAIN games :
       (games[ch].current_raise > 0 /\ last'.op = "hit" /\ last'.ch = ch)
       => /\ ~last'.ok
          /\ games'[ch].deck = games[ch].deck
          /\ \A u \in Seated(games[ch]) :
               /\ games'[ch].users[u].hand = games[ch].users[u].hand
               /\ games'[ch].users[u].score = games[ch].users[u].score
               /\ games'[ch].users[u].status = games[ch].users[u].status]_vars

\* C4, as stated: a raise made while a raise is open is declined, and the pot,
\* current_raise, every bet and every balance are unchanged.
C4_RaiseDeclinedNothingChanged ==
  [][\A ch \in DOMAIN games :
       (games[ch].current_raise > 0 /\ last'.op = "raise" /\ last'.ch = ch)
       => /\ ~last'.ok
          /\ games'[ch].pot = games[ch].pot
          /\ games'[ch].current_raise = games[ch].current_raise
          /\ \A u \in Seated(games[ch]) :
               games'[ch].users[u].bet = games[ch].users[u].bet
          /\ wallet_store'.coins = wallet_store.coins]_vars

\* C4, amended: a raise made while a raise is open is declined, and the pot,
\* current_raise and every bet are unchanged; every balance is unchanged too,
\* unless the local date is past the date of the last reset: then the reset
\* check the command starts with sets every balance to initial_coins.
C4_RaiseDeclinedWhileOpen ==
  [][\A ch \in DOMAIN games :
       (games[ch].current_raise > 0 /\ last'.op = "raise" /\ last'.ch = ch)
       => /\ ~last'.ok
          /\ games'[ch].pot = games[ch].pot
          /\ games'[ch].current_raise = games[ch].current_raise
          /\ \A u \in Seated(games[ch]) :
               games'[ch].users[u].bet = games[ch].users[u].bet
          /\ wallet_store'.coins =
               IF today > wallet_store.last_reset
               THEN [u \in DOMAIN wallet_store.coins |-> initial_coins]
               ELSE wallet_store.coins]_vars

\* a raise was declined because a raise is open, on the day after the last
\* reset: the command has reset the balances
C4_Witness ==
  /\ last.op = "raise" /\ ~last.ok /\ last.why = "raise open"
  /\ today = 1 /\ wallet_store.last_reset = 1
  /\ \E ch \in DOMAIN games : games[ch].current_raise > 0

\* C5: resolve_round never runs on a table while a raise is open there.
C5_NoResolveWhileRaiseOpen ==
  [][\A ch \in DOMAIN games :
       games[ch].current_raise > 0 => ~(last'.resolved /\ last'.ch = ch)]_vars

\* C6: when the timeout of a view runs, every invited responder that has not
\* answered ends with status fold and is_folded, its balance is not debited,
\* and current_raise is 0 right after.
C6_TimeoutFoldsAbsent ==
  [][last'.op = "timeout"
     => /\ \A u \in last'.absent :
             /\ games'[last'.ch].users[u].status = "fold"
             /\ games'[last'.ch].users[u].is_folded
             /\ wallet_store'.coins[u] = wallet_store.coins[u]
        /\ games'[last'.ch].current_raise = 0]_vars

\* C7: the handler that accepted the call or fold of the last outstanding
\* responder ends the wait and resets current_raise to 0 once its message is
\* sent: when it resumes with every responder answered current_raise is 0
\* after it, and no view stays open with every responder answered unless a
\* handler of it is still sending its message.
C7_WaitEndsOnLastResponse ==
  [][/\ (last'.op = "sent" /\ last'.ok)
          => games'[last'.ch].current_raise = 0
     /\ \A i \in 1..Len(views') :
          (/\ views'[i].responders # {}
           /\ views'[i].responders = DOMAIN views'[i].responses
           /\ views'[i].pending = {})
          => views'[i].finished]_vars

\* the last responder's handler has closed an open raise
C7_Witness ==
  last.op = "sent" /\ last.ok /\ last.amount > 0 /\ last.clears = 1

\* C8: clear_raise is executed exactly once through each view: not at all
\* while the view is open, once when it is finished, never a second time.
C8_ClearedExactlyOnce ==
  /\ \A i \in 1..Len(views) :
       views[i].clears = IF views[i].finished THEN 1 ELSE 0
  /\ last.clears <= 1

\* C9: every raise that is opened is eventually closed: current_raise
\* returns to 0, the timeout of a view firing eventually.
C9_RaiseEventuallyClosed ==
  \A ch \in Channels :
    (ch \in DOMAIN games /\ games[ch].current_raise > 0)
      ~> (ch \in DOMAIN games /\ games[ch].current_raise = 0)

\* a timeout has closed a raise some invited responder had not answered
C9_Witness ==
  last.op = "timeout" /\ last.amount > 0 /\ last.absent # {}

\* C10, as stated: calculate_max_raise(p) is 0 whenever p has raised in the
\* round, is folded or is not playing.
C10_MaxRaiseZeroIfIneligible ==
  \A ch \in DOMAIN games : \A p \in Seated(games[ch]) :
    (\/ games[ch].users[p].has_raised
     \/ games[ch].users[p].is_folded
     \/ games[ch].users[p].status # "playing")
    => calculate_max_raise(games[ch], wallet_store, p).ret = 0

\* C10, amended: calculate_max_raise(p) is 0 when p is not seated at the
\* table; for a seated p that has raised, is folded or is not playing it is
\* start_raise that declines every amount, changing nothing.
C10_IneligibleRaiserDeclined ==
  \A ch \in DOMAIN games : \A p \in Members :
    /\ p \notin Seated(games[ch])
         => calculate_max_raise(games[ch], wallet_store, p).ret = 0
    /\ (/\ p \in Seated(games[ch])
        /\ \/ games[ch].users[p].has_raised
           \/ games[ch].users[p].is_folded
           \/ games[ch].users[p].status # "playing")
         => \A amount \in 0..MaxAmount :
              start_raise(games[ch], wallet_store, p, amount)
                = Out(games[ch], wallet_store, FALSE)

\* a player who has raised and is still playing has room to raise by the
\* cap of calculate_max_raise
C10_Witness ==
  \E ch \in DOMAIN games : \E p \in Seated(games[ch]) :
    /\ games[ch].users[p].has_raised
    /\ games[ch].users[p].status = "playing"
    /\ calculate_max_raise(games[ch], wallet_store, p).ret >= 1

\* C11: right after a raise of amount a is accepted, every other player that
\* is playing or standing and not folded has a balance of at least a + 1; and
\* while a raise is open, no call of an invited responder who has not
\* answered is declined for want of coins.
C11_RespondersCanCall ==
  [][/\ (last'.op = "raise" /\ last'.ok)
         => \A u \in ToSet(OtherActive(games'[last'.ch], last'.user)) :
              wallet_store'.coins[u] >= last'.amount + 1
     /\ \A i \in 1..Len(views') :
          \A u \in views'[i].responders \ DOMAIN views'[i].responses :
            (/\ ~views'[i].finished
             /\ games'[views'[i].ch].current_raise > 0
             /\ ~games'[views'[i].ch].users[u].is_folded
             /\ games'[views'[i].ch].users[u].status = "playing")
            => wallet_store'.coins[u] >= games'[views'[i].ch].current_raise]_vars
\* C12: when a resolution finds no survivor, every in-round player ends with
\* the balance held right before the player's ante of the round was deducted,
\* no natural bonus is paid and the pot ends at 0.
C12_NoSurvivorRefundsAll ==
  [][\A ch \in DOMAIN games :
       (last'.resolved /\ last'.ch = ch /\ last'.summary.message = "no winner")
       => /\ \A u \in ToSet(round_players(games[ch])) :
               wallet_store'.coins[u] = round_start[ch][u]
          /\ last'.summary.paid = 0
          /\ games'[ch].pot = 0]_vars
\* the survivors of a table with the highest score, in seating order
C13_Winners(g) ==
  LET alive(uid) == /\ g.users[uid].status \in {"playing", "stand"}
                    /\ ~g.users[uid].is_folded
      best == Max({g.users[uid].score : uid \in {v \in Seated(g) : alive(v)}})
  IN SelectSeq(g.order, LAMBDA uid : alive(uid) /\ g.users[uid].score = best)

\* the natural bonus a resolution with survivors owes a player
C13_Bonus(state) ==
  IF state.status \notin {"bust", "fold"} /\ ~state.is_folded
  THEN state.natural_bonus ELSE 0

\* C13: at a resolution with k >= 1 winners and pot P, the i-th winner in
\* seating order is credited P div k coins from the pot, and one more if
\* i <= P mod k; the shares credited sum to P and differ by at most 1.
C13_PotSplitExactly ==
  [][\A ch \in DOMAIN games :
       (/\ last'.resolved /\ last'.ch = ch
        /\ last'.summary.message \in {"winner", "draw"})
       => LET g == games[ch]
              winners == C13_Winners(g)
              k == Len(winners)
              credited == [i \in 1..k |->
                             wallet_store'.coins[winners[i]]
                               - wallet_store.coins[winners[i]]
                               - C13_Bonus(g.users[winners[i]])]
          IN /\ k >= 1
             /\ \A i \in 1..k :
                  credited[i] = (g.pot \div k) + (IF i <= g.pot % k THEN 1 ELSE 0)
             /\ Sum(credited, 1..k) = g.pot
             /\ \A i, j \in 1..k : credited[i] - credited[j] <= 1]_vars

\* two winners have split an odd pot: one took a coin more than the other
C13_Witness ==
  /\ last.resolved /\ last.summary.message = "draw"
  /\ \E i, j \in 1..Len(last.summary.results) :
       /\ i < j
       /\ last.summary.results[i].change = last.summary.results[j].change + 1
       /\ last.summary.results[j].change >= 1
\* the players of a table that are in its round
C14_InRound(g) ==
  {uid \in Seated(g) : \/ g.users[uid].status # "ready"
                        \/ g.users[uid].bet > 0
                        \/ g.users[uid].hand # <<>>}

\* the in-round players that are playing or standing and not folded
C14_Survivors(g) ==
  {uid \in C14_InRound(g) : /\ g.users[uid].status \in {"playing", "stand"}
                            /\ ~g.users[uid].is_folded}

\* C14: at a resolution with a survivor, the players credited a share of the
\* pot are exactly the survivors whose score is the highest score of a
\* survivor; a busted, folded or not-in-round player is credited no share.
C14_WinnersAreBestSurvivors ==
  [][\A ch \in DOMAIN games :
       (last'.resolved /\ last'.ch = ch /\ C14_Survivors(games[ch]) # {})
       => LET g == games[ch]
              best == Max({g.users[v].score : v \in C14_Survivors(g)})
              share(uid) == wallet_store'.coins[uid] - wallet_store.coins[uid]
                              - C13_Bonus(g.users[uid])
          IN /\ last'.summary.message \in {"winner", "draw"}
             /\ \A uid \in Seated(g) :
                  IF uid \in C14_Survivors(g) /\ g.users[uid].score = best
                  THEN share(uid) >= 1
                  ELSE share(uid) = 0]_vars

\* the second round of a table was won by its only player while the other
\* seated player sat the round out
C14_Witness ==
  /\ last.resolved /\ last.summary.message = "winner"
  /\ Len(last.summary.results) = 1
  /\ Len(games[last.ch].order) = 2
  /\ rounds[last.ch] = 2

\* the share of the pot a resolution with survivors owes a player
C15_Share(g, uid) ==
  LET winners == C13_Winners(g)
      k == Len(winners)
      at == {i \in 1..k : winners[i] = uid}
  IN IF at = {} THEN 0
     ELSE (g.pot \div k) + (IF Min(at) <= g.pot % k THEN 1 ELSE 0)

\* C15: a natural bonus is credited only by resolve_round with a survivor,
\* and only to a player who recorded it on the two cards dealt in the round
\* and is neither busted nor folded at the resolution, winner or not; a step
\* that does not resolve credits nobody (a join debits the ante even on a
\* natural), and the no-survivor branch credits the bets and nothing else.
C15_BonusOnlyAtResolution ==
  [][/\ \A ch \in DOMAIN games : \A uid \in Seated(games[ch]) :
          games[ch].users[uid].natural_bonus # 0
          => /\ games[ch].users[uid].natural_bonus = NaturalBonus
             /\ Len(games[ch].users[uid].hand) >= 2
             /\ IsNatural(SubSeq(games[ch].users[uid].hand, 1, 2))
     /\ ~last'.resolved
          => \A uid \in DOMAIN wallet_store'.coins :
               wallet_store'.coins[uid] <=
                 (IF uid \in DOMAIN wallet_store.coins
                  THEN wallet_store.coins[uid] ELSE initial_coins)
     /\ (last'.op = "start" /\ last'.ok)
          => wallet_store'.coins[last'.user] =
               (IF last'.user \in DOMAIN wallet_store.coins
                THEN wallet_store.coins[last'.user] ELSE initial_coins) - 1
     /\ \A ch \in DOMAIN games :
          (last'.resolved /\ last'.ch = ch)
          => \A uid \in Seated(games[ch]) :
               wallet_store'.coins[uid] - wallet_store.coins[uid] =
                 IF last'.summary.message \in {"winner", "draw"}
                 THEN C15_Share(games[ch], uid)
                        + (IF /\ games[ch].users[uid].natural_bonus # 0
                              /\ games[ch].users[uid].status \notin {"bust", "fold"}
                              /\ ~games[ch].users[uid].is_folded
                           THEN NaturalBonus ELSE 0)
                 ELSE games[ch].users[uid].bet]_vars

\* a round was resolved in which a player holding a natural did not win the
\* pot and was credited the bonus alone
C15_Witness ==
  /\ last.resolved /\ last.summary.message = "winner"
  /\ last.summary.paid = NaturalBonus
  /\ \E i \in 1..Len(last.summary.results) :
       /\ last.summary.results[i].natural_bonus = NaturalBonus
       /\ last.summary.results[i].change = NaturalBonus
       /\ last.summary.results[i].score < 21
\* C16: in the summary of every resolution, the natural_bonus amounts of the
\* per-player entries sum to the natural-bonus coins the resolution credited
\* to balances.
C16_ReportedBonusIsPaidBonus ==
  last.resolved =>
    Sum([i \in 1..Len(last.summary.results) |->
           last.summary.results[i].natural_bonus],
        1..Len(last.summary.results)) = last.summary.paid
\* C17: with the stored reset date before the local date, the first
\* operation that runs the reset check stores the local date and sets every
\* tracked balance to initial_coins (a join then takes its ante from the
\* joiner's, a raise its amount from the raiser's, and a resolution pays out
\* of the reset balances); an operation
\* that finds the stored date equal to the local date resets nothing,
\* whatever table of the store it comes from.
C17_ResetOncePerDate ==
  [][/\ wallet_store'.last_reset # wallet_store.last_reset
          => /\ wallet_store.last_reset < today
             /\ wallet_store'.last_reset = today
             /\ ~last'.resolved
                  => \A u \in DOMAIN wallet_store.coins :
                       wallet_store'.coins[u] =
                         IF last'.ok /\ last'.user = u /\ last'.op = "start"
                         THEN initial_coins - 1
                         ELSE IF last'.ok /\ last'.user = u /\ last'.op = "raise"
                         THEN initial_coins - last'.amount
                         ELSE initial_coins
     /\ (/\ last'.op \in {"start", "hit", "raise", "allstand", "show"}
         /\ last'.why # "in a round on another channel")
          => wallet_store'.last_reset = today
     /\ (wallet_store.last_reset = today /\ last'.op = "show")
          => \A u \in DOMAIN wallet_store.coins :
               wallet_store'.coins[u] = wallet_store.coins[u]]_vars

\* on the day after the first reset the store was reset through one table,
\* a player has anted since, and a command on the other table has left the
\* balances as they were
C17_Witness ==
  /\ last.op = "show" /\ last.ok /\ last.ch = 2
  /\ today = 1 /\ wallet_store.last_reset = 1
  /\ 1 \in DOMAIN games /\ Seated(games[1]) # {}
  /\ \E u \in Seated(games[1]) :
       u \notin Seated(games[2]) /\ wallet_store.coins[u] < initial_coins

\* C18: every operation that changes a balance has run the daily-reset check
\* first, so after any step that changes a balance the stored reset date is
\* the local date.
C18_ResetCheckBeforeBalances ==
  [][wallet_store'.coins # wallet_store.coins
       => wallet_store'.last_reset = today']_vars


\* the fields of the players of a table that C19 names
C19_Fields(g) ==
  [u \in Seated(g) |->
     [hand |-> g.users[u].hand, score |-> g.users[u].score,
      status |-> g.users[u].status, bet |-> g.users[u].bet,
      has_raised |-> g.users[u].has_raised,
      is_folded |-> g.users[u].is_folded,
      natural_bonus |-> g.users[u].natural_bonus]]

\* the pot, raise, deck and players of the table of a declined bj_start,
\* bj_hit, bj_raise, call or fold are as before it
C19_TableUntouched ==
  \A ch \in DOMAIN games :
    (/\ last'.op \in {"start", "hit", "raise", "call", "fold"}
     /\ ~last'.ok /\ last'.ch = ch)
    => /\ games'[ch].pot = games[ch].pot
       /\ games'[ch].current_raise = games[ch].current_raise
       /\ games'[ch].deck = games[ch].deck
       /\ games'[ch].order = games[ch].order
       /\ C19_Fields(games'[ch]) = C19_Fields(games[ch])

\* C19, as stated: a declined join, hit, raise, call or fold leaves the pot,
\* current_raise and deck of the table, the hand, score, status, bet and
\* flags of every player, and every wallet balance exactly as before.
C19_DeclinedNothingChanged ==
  [][/\ C19_TableUntouched
     /\ (last'.op \in {"start", "hit", "raise", "call", "fold"} /\ ~last'.ok)
          => wallet_store'.coins = wallet_store.coins]_vars

\* C19, amended: a declined join, hit, raise, call or fold leaves the pot,
\* current_raise and deck of the table and the hand, score, status, bet and
\* flags of every player exactly as before; a declined call or fold leaves
\* every balance as before, and so does a declined join, hit or raise, unless
\* the local date is past the date of the last reset and the command runs
\* the reset check: then every tracked balance is set to initial_coins.
C19_DeclinedOnlyResets ==
  [][/\ C19_TableUntouched
     /\ (last'.op \in {"call", "fold"} /\ ~last'.ok)
          => wallet_store' = wallet_store
     /\ (last'.op \in {"start", "hit", "raise"} /\ ~last'.ok)
          => wallet_store'.coins =
               IF /\ today > wallet_store.last_reset
                  /\ last'.why # "in a round on another channel"
               THEN [u \in DOMAIN wallet_store.coins |-> initial_coins]
               ELSE wallet_store.coins]_vars

\* a hit was declined on the day after the last reset, on a table with coins
\* in its pot: the command has reset the balances of its players
C19_Witness ==
  /\ last.op = "hit" /\ ~last.ok
  /\ today = 1 /\ wallet_store.last_reset = 1
  /\ games[last.ch].pot > 0
  /\ \A u \in DOMAIN wallet_store.coins : wallet_store.coins[u] = initial_coins


\* the value of a card that is not an Ace: 10 for a face card, the number of
\* a number card
C20_Value(rank) ==
  IF rank \in {"J", "Q", "K"} THEN 10
  ELSE CHOOSE n \in 2..10 : ToString(n) = rank

\* the totals of a hand, each Ace counted as 1 or as 11
C20_Totals(hand) ==
  LET aces == {i \in 1..Len(hand) : hand[i].rank = "A"}
      others == [i \in 1..Len(hand) |->
                   IF i \in aces THEN 0 ELSE C20_Value(hand[i].rank)]
  IN {Sum(others, 1..Len(hand)) + Cardinality(aces) + 10 * k : k \in 0..Cardinality(aces)}

\* the largest total not over 21, or else the smallest total (every Ace 1)
C20_Best(hand) ==
  IF \E t \in C20_Totals(hand) : t <= 21
  THEN Max({t \in C20_Totals(hand) : t <= 21})
  ELSE Min(C20_Totals(hand))

\* C20: the score of every hand dealt is the largest total not over 21 that
\* counting each Ace as 1 or 11 gives, or the total with every Ace as 1 if
\* there is none; the status of the player is bust exactly when the score is
\* over 21.  [A,K] is 21, [A,A,9] is 21 and [K,Q,2] is 22.
C20_ScoreIsBestTotal ==
  /\ \A ch \in DOMAIN games : \A u \in Seated(games[ch]) :
        games[ch].users[u].hand # <<>>
        => /\ games[ch].users[u].score = C20_Best(games[ch].users[u].hand)
           /\ games[ch].users[u].status = "bust"
                <=> games[ch].users[u].score > 21
  /\ HandScore(<<Card("Spades", "A"), Card("Spades", "K")>>) = 21
  /\ HandScore(<<Card("Spades", "A"), Card("Hearts", "A"),
                 Card("Diamonds", "9")>>) = 21
  /\ HandScore(<<Card("Spades", "K"), Card("Hearts", "Q"),
                 Card("Clubs", "2")>>) = 22

\* a player holds two Aces and a 9, scored 21, and is still playing
C20_Witness ==
  \E ch \in DOMAIN games : \E u \in Seated(games[ch]) :
    /\ Len(games[ch].users[u].hand) = 3
    /\ Cardinality({i \in 1..3 : games[ch].users[u].hand[i].rank = "A"}) = 2
    /\ \E i \in 1..3 : games[ch].users[u].hand[i].rank = "9"
    /\ games[ch].users[u].score = 21
    /\ games[ch].users[u].status = "playing"


\* C21: a player whose status is bust has is_folded set, and until the round
\* of the table is resolved the status stays bust, the hand and the bet stay
\* as they are, and no hit, raise, call, fold, stand or join of that player
\* is accepted.
C21_BustIsPermanent ==
  [][\A ch \in DOMAIN games : \A u \in Seated(games[ch]) :
       games[ch].users[u].status = "bust"
       => /\ games[ch].users[u].is_folded
          /\ \/ last'.resolved /\ last'.ch = ch
             \/ /\ games'[ch].users[u].status = "bust"
                /\ games'[ch].users[u].is_folded
                /\ games'[ch].users[u].hand = games[ch].users[u].hand
                /\ games'[ch].users[u].bet = games[ch].users[u].bet
                /\ ~(/\ last'.ok /\ last'.ch = ch /\ last'.user = u
                     /\ last'.op \in {"start", "hit", "raise", "call",
                                      "fold", "stand"})]_vars


\* C22: in every reachable state, a player with is_folded set has status fold
\* or bust.
C22_FoldedIsFoldOrBust ==
  \A ch \in DOMAIN games : \A u \in Seated(games[ch]) :
    games[ch].users[u].is_folded
    => games[ch].users[u].status \in {"fold", "bust"}

\* a player is folded with status fold on a table where another is bust
C22_Witness ==
  \E ch \in DOMAIN games : \E u, v \in Seated(games[ch]) :
    /\ games[ch].users[u].is_folded /\ games[ch].users[u].status = "fold"
    /\ games[ch].users[v].is_folded /\ games[ch].users[v].status = "bust"


\* what C23 lets a step add to the bet of player u of table ch: 1 at u's
\* ante, the amount at u's raise, current_raise at u's call
C23_Added(ch, u) ==
  IF last'.ok /\ last'.ch = ch /\ last'.user = u
  THEN CASE last'.op = "start" -> 1
         [] last'.op = "raise" -> last'.amount
         [] last'.op = "call" -> games[ch].current_raise
         [] OTHER -> 0
  ELSE 0

\* C23: within a round the bet of a player never decreases: a step that does
\* not resolve the round of the table adds 1 to it at the player's ante, the
\* amount at the player's own raise, current_raise at the player's call, and
\* leaves it alone otherwise; a resolution sets it to 0.
C23_BetOnlyGrows ==
  [][\A ch \in DOMAIN games : \A u \in Seated(games[ch]) :
       IF last'.resolved /\ last'.ch = ch
       THEN games'[ch].users[u].bet = 0
       ELSE /\ games'[ch].users[u].bet >= games[ch].users[u].bet
            /\ games'[ch].users[u].bet
                 = games[ch].users[u].bet + C23_Added(ch, u)]_vars


\* C24: right after a step in which resolve_round ran on a table, the table
\* has a freshly shuffled full deck, pot 0 and current_raise 0, every player
\* has an empty hand, score 0, bet 0, has_raised and is_folded false,
\* natural_bonus 0 and status ready, and the players are those seated before.
C24_TableResetAfterResolution ==
  [][\A ch \in DOMAIN games :
       (last'.resolved /\ last'.ch = ch)
       => /\ games'[ch].deck \in Shuffles
          /\ games'[ch].pot = 0
          /\ games'[ch].current_raise = 0
          /\ games'[ch].order = games[ch].order
          /\ DOMAIN games'[ch].users = DOMAIN games[ch].users
          /\ \A u \in Seated(games'[ch]) :
               /\ games'[ch].users[u].hand = <<>>
               /\ games'[ch].users[u].score = 0
               /\ games'[ch].users[u].bet = 0
               /\ ~games'[ch].users[u].has_raised
               /\ ~games'[ch].users[u].is_folded
               /\ games'[ch].users[u].natural_bonus = 0
               /\ games'[ch].users[u].status = "ready"]_vars

\* a round of two players was resolved with no survivor, and the table is
\* back to its reset state with both players still seated
C24_Witness ==
  /\ last.resolved /\ last.summary.message = "no winner"
  /\ Len(last.summary.results) = 2
  /\ Len(games[last.ch].order) = 2
  /\ games[last.ch].pot = 0
  /\ \A u \in Seated(games[last.ch]) : games[last.ch].users[u].status = "ready"


\* what C25 says of a join: it is accepted, takes one coin from the player,
\* adds one to the pot, deals two cards and leaves the player playing
C25_Joined(ch, u) ==
  /\ last'.ok
  /\ wallet_store'.coins[u] = wallet_store.coins[u] - 1
  /\ games'[ch].pot = games[ch].pot + 1
  /\ Len(games'[ch].users[u].hand) = 2
  /\ games'[ch].users[u].bet = 1
  /\ games'[ch].users[u].status = "playing"

C26_DuplicateJoinDeclined ==
  [][\A ch \in DOMAIN games : \A u \in ToSet(round_players(games[ch])) :
       (last'.op = "start" /\ last'.ch = ch /\ last'.user = u)
       => /\ ~last'.ok
          /\ wallet_store'.coins[u] = wallet_store.coins[u]
          /\ games'[ch].pot = games[ch].pot
          /\ games'[ch].users[u].hand = games[ch].users[u].hand]_vars


\* C27: in every reachable state every wallet balance is at least 0.
C27_BalancesNotNegative ==
  \A u \in DOMAIN wallet_store.coins : wallet_store.coins[u] >= 0

\* a call was declined while an invited player, still playing, had no coin
\* left to pay the open raise with
C27_Witness ==
  /\ last.op = "call" /\ ~last.ok /\ last.why = "not processed"
  /\ games[last.ch].current_raise > 0
  /\ \E i \in 1..Len(views) :
       \E u \in views[i].responders \ DOMAIN views[i].responses :
         /\ views[i].ch = last.ch /\ ~views[i].finished
         /\ games[last.ch].users[u].status = "playing"
         /\ wallet_store.coins[u] = 0


\* the coins a step applies to the balance of uid: minus the ante at uid's
\* join, minus the amount at uid's raise or call, and at a resolution the
\* pot share and the bonus due, or the bet when nobody survives
C28_Delta(uid) ==
  (IF last'.ok /\ last'.user = uid
   THEN CASE last'.op = "start" -> -1
          [] last'.op \in {"raise", "call"} -> -last'.amount
          [] OTHER -> 0
   ELSE 0)
  + (IF last'.resolved /\ uid \in ToSet(round_players(games[last'.ch]))
     THEN IF Survivors(games[last'.ch]) = <<>>
          THEN games[last'.ch].users[uid].bet
          ELSE C15_Share(games[last'.ch], uid)
                 + (IF BonusDue(games[last'.ch].users[uid])
                    THEN NaturalBonus ELSE 0)
     ELSE 0)

\* C28: whatever table of the store a step comes from, it leaves every
\* balance at its value before the step plus the coins the step applies to
\* it, so that over any interleaving of the operations of the tables a
\* balance is its starting value plus the sum of the deltas applied.
C28_NoLostUpdate ==
  [][\A uid \in DOMAIN wallet_store'.coins :
       wallet_store'.coins[uid] =
         (IF uid \in DOMAIN wallet_store.coins
          THEN wallet_store.coins[uid] ELSE initial_coins) + C28_Delta(uid)]_vars

\* a player has anted for the second round of one table while seated at the
\* other table too, after a round there, and the copy of the balance kept in
\* that seat is out of date
C28_Witness ==
  /\ last.op = "start" /\ last.ok /\ last.why = "rejoin"
  /\ rounds[last.ch] = 1
  /\ \E ch \in DOMAIN games \ {last.ch} :
       /\ rounds[ch] >= 1
       /\ last.user \in Seated(games[ch])
       /\ games[ch].users[last.user].coins # wallet_store.coins[last.user] + 1


\* C29: for every player of the summary of a resolution, the reported change
\* is the reported final balance minus the balance the player had right
\* before the first debit of the round (the ante).
C29_ChangeIsNetOfRound ==
  [][last'.resolved
     => \A i \in 1..Len(last'.summary.results) :
          LET entry == last'.summary.results[i]
          IN /\ entry.final_coins = wallet_store'.coins[entry.user_id]
             /\ entry.change =
                  entry.final_coins - round_start[last'.ch][entry.user_id]]_vars


\* C30: on a table whose deck is empty, deal_card for any player returns
\* without a card and leaves the game as it is, and a bj_hit is declined
\* with every hand, score and status unchanged.
C30_EmptyDeckDrawsNothing ==
  [][\A ch \in DOMAIN games :
       games[ch].deck = <<>>
       => /\ \A u \in Seated(games[ch]) : deal_card(games[ch], u) = games[ch]
          /\ (last'.op = "hit" /\ last'.ch = ch)
               => /\ ~last'.ok
                  /\ games'[ch].deck = <<>>
                  /\ \A u \in Seated(games[ch]) :
                       /\ games'[ch].users[u].hand = games[ch].users[u].hand
                       /\ games'[ch].users[u].score = games[ch].users[u].score
                       /\ games'[ch].users[u].status
                            = games[ch].users[u].status]_vars

\* a player who is still playing asked for a card when the deck of the table
\* was empty, and the hit was declined
C30_Witness ==
  /\ last.op = "hit" /\ ~last.ok /\ last.why = "deck empty"
  /\ games[last.ch].deck = <<>>
  /\ \E u \in Seated(games[last.ch]) :
       games[last.ch].users[u].status = "playing"


\* C31: a player whose raise was accepted in the round in progress has no
\* further raise accepted in that round.
C31_OneRaisePerRound ==
  [][\A ch \in DOMAIN games : \A u \in last.raised[ch] :
       ~(last'.op = "raise" /\ last'.ok /\ last'.ch = ch /\ last'.user = u)]_vars


\* the players of a game with those of the set folded made to fold, the
\* coins field left out
C32_Folded(g, folded) ==
  [u \in Seated(g) |->
     [hand |-> g.users[u].hand, score |-> g.users[u].score,
      status |-> IF u \in folded THEN "fold" ELSE g.users[u].status,
      bet |-> g.users[u].bet, has_raised |-> g.users[u].has_raised,
      is_folded |-> (u \in folded) \/ g.users[u].is_folded,
      natural_bonus |-> g.users[u].natural_bonus]]

\* the absent responders of a timeout whose fold respond_to_raise accepts
C32_FoldedByTimeout(g, absent) ==
  {u \in absent : /\ g.current_raise > 0
                  /\ g.users[u].status = "playing"
                  /\ ~g.users[u].is_folded}

\* C32: an accepted fold sets the status of the player to fold and is_folded
\* to true and changes nothing else: the fold a player chooses leaves every
\* balance, the pot, current_raise, the deck, the bets and every other
\* player as they are, and so do the folds a timeout applies (the timeout
\* then clears current_raise with its own call of clear_raise).
C32_FoldChangesOnlyTheFolder ==
  [][/\ (last'.op = "fold" /\ last'.ok)
          => /\ wallet_store' = wallet_store
             /\ games'[last'.ch].pot = games[last'.ch].pot
             /\ games'[last'.ch].current_raise = games[last'.ch].current_raise
             /\ games'[last'.ch].deck = games[last'.ch].deck
             /\ C19_Fields(games'[last'.ch])
                  = C32_Folded(games[last'.ch], {last'.user})
     /\ last'.op = "timeout"
          => /\ wallet_store' = wallet_store
             /\ games'[last'.ch].pot = games[last'.ch].pot
             /\ games'[last'.ch].deck = games[last'.ch].deck
             /\ C19_Fields(games'[last'.ch])
                  = C32_Folded(games[last'.ch],
                               C32_FoldedByTimeout(games[last'.ch],
                                                   last'.absent))]_vars

\* a player has chosen to fold on an open raise and keeps the bet placed
C32_Witness ==
  /\ last.op = "fold" /\ last.ok
  /\ games[last.ch].current_raise > 0
  /\ games[last.ch].users[last.user].status = "fold"
  /\ games[last.ch].users[last.user].bet >= 1
  /\ games[last.ch].pot >= 3


\* C33: user_stand turns the status of a player who is playing into stand
\* and changes nothing else; for a player with any other status and for an
\* identity that is not seated it changes nothing; applied twice it leaves
\* what it leaves applied once.
C33_StandOnlyFromPlaying ==
  \A ch \in DOMAIN games : \A u \in Members :
    LET g == games[ch]
        once == user_stand(g, u)
    IN /\ once = IF u \in Seated(g) /\ g.users[u].status = "playing"
                 THEN [g EXCEPT !.users[u].status = "stand"]
                 ELSE g
       /\ user_stand(once, u) = once

\* user_stand was called for a player who was not playing, at a table with
\* a player who stands and a player who is bust or has folded
C33_Witness ==
  /\ last.op = "stand" /\ ~last.ok
  /\ \E u, v \in Seated(games[last.ch]) :
       /\ games[last.ch].users[u].status = "stand"
       /\ games[last.ch].users[v].status \in {"bust", "fold"}


\* C34: in every reachable state the coins field of every player seated at a
\* table is the balance of that player in the wallet store.
C34_CoinsFieldIsBalance ==
  \A ch \in DOMAIN games : \A u \in Seated(games[ch]) :
    games[ch].users[u].coins = wallet_store.coins[u]


(***************************************************************************)
(* The copy of the engine in bj.py, the class BlackjackBot.get_game makes  *)
(* tables of: it is blackjack_logic.py but for the two lists below.        *)
(***************************************************************************)
\* active_players of calculate_max_raise in bj.py: every other seated player
\* who has not folded, whatever the status
bj_OtherActive(g, raiser_id) ==
  SelectSeq(g.order, LAMBDA uid :
              ~g.users[uid].is_folded /\ uid # raiser_id)

bj_calculate_max_raise(g, w, raiser_id) ==
  LET Others(r, active_players) ==
        IF active_players = <<>> THEN Out(r.g, r.w, r.ret)
        ELSE CapByOthers(GetCoinsAll(r.g, r.w, active_players), r.ret,
                         active_players)
  IN IF raiser_id \notin Seated(g) THEN Out(g, w, 0)
     ELSE Others(_get_coins(g, w, raiser_id), bj_OtherActive(g, raiser_id))

\* active_players of resolve_round in bj.py, taken from self.users
bj_Survivors(g) ==
  SelectSeq(g.order, LAMBDA uid :
              /\ g.users[uid].status \in {"playing", "stand"}
              /\ ~g.users[uid].is_folded)

\* resolve_round of bj.py: every loop runs over self.users
bj_resolve_round(g, w, shuffled) ==
  LET Decide(b, players, active_players) ==
        IF active_players = <<>>
        THEN NoSurvivor(b, players, [uid \in ToSet(players) |-> b.w.coins[uid]],
                        shuffled)
        ELSE Winners(b, players, [uid \in ToSet(players) |-> b.w.coins[uid]],
                     active_players, shuffled)
  IN Decide(GetCoinsAll(g, w, g.order), g.order, bj_Survivors(g))

\* the seated players who did not join the round: ready, no bet, no hand
C35_Bystanders(g) ==
  {u \in Seated(g) : /\ g.users[u].status = "ready"
                     /\ g.users[u].bet = 0
                     /\ g.users[u].hand = <<>>}

\* the table without the players of the set away
C35_Without(g, away) ==
  [g EXCEPT !.order = SelectSeq(g.order, LAMBDA uid : uid \notin away),
            !.users = [u \in DOMAIN g.users \ away |-> g.users[u]]]

\* the players a summary lists
C35_Listed(summary) ==
  {summary.results[i].user_id : i \in 1..Len(summary.results)}

\* while a round is on at table g its bystanders have no effect on limit, a
\* calculate_max_raise, nor on resolve, a resolve_round
C35_NoEffect(g, w, limit(_, _, _), resolve(_, _, _)) ==
  LET away == C35_Bystanders(g)
      Unlisted(r) ==
        /\ C35_Listed(r.ret) \cap away = {}
        /\ \A u \in away : r.w.coins[u] = _wallet_entry(w, u).coins[u]
  IN Seated(g) # away
       => /\ \A p \in Seated(g) \ away :
               limit(g, w, p).ret = limit(C35_Without(g, away), w, p).ret
          /\ \A shuffled \in OneShuffle : Unlisted(resolve(g, w, shuffled))

\* C35: the seated players who did not join the current round (ready, bet 0,
\* empty hand) have no effect on it: calculate_max_raise gives a raiser what
\* it gives at the table without them, the summary of resolve_round does not
\* list them and resolve_round leaves their balances as they are. This is
\* stated of the engine of blackjack_logic.py and of its copy in bj.py.
C35_BystandersHaveNoEffect ==
  \A ch \in DOMAIN games :
    /\ C35_NoEffect(games[ch], wallet_store, calculate_max_raise, resolve_round)
    /\ C35_NoEffect(games[ch], wallet_store,
                    bj_calculate_max_raise, bj_resolve_round)

\* the same of the engine of blackjack_logic.py alone
C35_BystandersOfLogic ==
  \A ch \in DOMAIN games :
    C35_NoEffect(games[ch], wallet_store, calculate_max_raise, resolve_round)


\* C36: a raise that is accepted while no other player is eligible to
\* respond (the view is made with an empty set of responders) is closed in
\* the same step: current_raise of the table is 0 after it.
C36_EmptyRaiseClosesAtOnce ==
  [][(/\ last'.op = "raise" /\ last'.ok
      /\ Len(views') = Len(views) + 1
      /\ views'[Len(views')].responders = {})
       => games'[last'.ch].current_raise = 0]_vars


\* C37: within one raise the answer of a player is accepted at most once: a
\* call or a fold is accepted only from a player who has had no answer
\* accepted since current_raise was set, so that no player is debited the
\* amount of one raise twice.
C37_AnswerAcceptedOnce ==
  [][(last'.op \in {"call", "fold"} /\ last'.ok)
       => last'.user \notin last.answered[last'.ch]]_vars


\* the view of the raise that is open at table ch: the last one made for it
C38_ViewOfRaise(ch) ==
  views[Max({i \in 1..Len(views) : views[i].ch = ch})]

\* C38: current_raise of a table is cleared by a view only if the view is
\* the one of the raise that is open: a timeout that clears it is the
\* timeout of that view, and a response handler that clears it on resuming
\* is a handler of that view.
C38_ClearedByOwnView ==
  [][\A ch \in DOMAIN games :
       (/\ last'.op \in {"sent", "timeout"} /\ last'.ch = ch
        /\ games[ch].current_raise > 0
        /\ games'[ch].current_raise = 0)
         => /\ last'.op = "timeout"
                 => /\ C38_ViewOfRaise(ch).raiser_id = last'.user
                    /\ ~C38_ViewOfRaise(ch).finished
            /\ last'.op = "sent"
                 => last'.user \in C38_ViewOfRaise(ch).pending]_vars


\* the tables at which user u holds a seat with a status other than ready
C39_ActiveSeats(u) ==
  {ch \in DOMAIN games :
     u \in Seated(games[ch]) /\ games[ch].users[u].status # "ready"}

\* C39: in one guild no identity ever holds a seat with a status other than
\* ready at two tables at once, and a bj_start of an identity that has such
\* a seat at another table is declined and changes nothing.
C39_OneActiveSeatPerGuild ==
  [][/\ \A u \in Members : Cardinality(C39_ActiveSeats(u)') <= 1
     /\ \A u \in Members :
          (/\ last'.op = "start" /\ last'.user = u
           /\ C39_ActiveSeats(u) \ {last'.ch} # {})
            => /\ ~last'.ok
               /\ games' = games
               /\ wallet_store' = wallet_store]_vars

\* a bj_start was declined for a player who is in the round of the other
\* table, at a table where another player is in the round
C39_Witness ==
  /\ last.op = "start" /\ ~last.ok
  /\ last.why = "in a round on another channel"
  /\ C39_ActiveSeats(last.user) = AllChannels \ {last.ch}
  /\ \E v \in Members \ {last.user} : last.ch \in C39_ActiveSeats(v)


\* the 52 cards create_deck makes a deck of
C40_Cards ==
  {Card(suit, rank) :
     suit \in {"Hearts", "Diamonds", "Clubs", "Spades"},
     rank \in {"2", "3", "4", "5", "6", "7", "8", "9", "10",
               "J", "Q", "K", "A"}}

\* the cards of the deck and of the hands of table g are cards of the 52 and
\* no two of them are the same card
C40_NoCardTwice(g) ==
  LET cards == ToSet(g.deck)
                 \cup UNION {ToSet(g.users[u].hand) : u \in Seated(g)}
  IN /\ cards \subseteq C40_Cards
     /\ Cardinality(cards)
          = Len(g.deck) + Sum([u \in Seated(g) |-> Len(g.users[u].hand)],
                              Seated(g))

\* the k cards pop takes from the deck of g, in the order it takes them
C40_Drawn(g, k) == [i \in 1..k |-> g.deck[Len(g.deck) + 1 - i]]

\* a step that does not reset the deck of g takes k >= 0 cards from its end;
\* if k > 0 they are the last k cards of the hand of one player of g2, one
\* card appended to the hand for a hit, and every other hand is as it was
C40_Draws(g, g2, k, hit) ==
  /\ k >= 0
  /\ g2.deck = SubSeq(g.deck, 1, Len(g.deck) - k)
  /\ k > 0
       => \E u \in Seated(g2) :
            LET hand == g2.users[u].hand
            IN /\ Len(hand) >= k
               /\ SubSeq(hand, Len(hand) - k + 1, Len(hand)) = C40_Drawn(g, k)
               /\ hit => /\ k = 1
                         /\ u \in Seated(g)
                         /\ hand = Append(g.users[u].hand, g.deck[Len(g.deck)])
               /\ \A v \in Seated(g) \ {u} :
                    g2.users[v].hand = g.users[v].hand

\* C40: between two resets of the deck of a table no card exists twice: the
\* cards of the hands and of the deck are pairwise different cards of the
\* 52, and every draw takes one card from the end of the deck and puts it
\* at the end of one hand.
C40_NoCardExistsTwice ==
  [][/\ \A ch \in DOMAIN games' : C40_NoCardTwice(games'[ch])
     /\ \A ch \in DOMAIN games :
          ~(last'.resolved /\ last'.ch = ch)
            => C40_Draws(games[ch], games'[ch],
                         Len(games[ch].deck) - Len(games'[ch].deck),
                         last'.op = "hit")]_vars

\* a hit has given a third card to a player while the other player holds
\* two cards and cards are left in the deck
C40_Witness ==
  /\ last.op = "hit" /\ last.ok
  /\ Len(games[last.ch].users[last.user].hand) = 3
  /\ games[last.ch].deck # <<>>
  /\ \E v \in Seated(games[last.ch]) \ {last.user} :
       Len(games[last.ch].users[v].hand) = 2

====
